---------------------------- MODULE Spec2Model ----------------------------
(***************************************************************************)
(* A model of src/ranking.py, the university rankings dashboard.           *)
(*                                                                         *)
(* The script loads four ranking tables, reconciles the institutions they  *)
(* share, filters each table by the selected years and by the pair         *)
(* {anchor, comparator}, parses textual rank ranges and looks up KPI       *)
(* values.  Each helper of the script is an operator translated from its   *)
(* code; each specification below drives one group of helpers over         *)
(* bounded inputs.                                                         *)
(*                                                                         *)
(* Python values are modelled as follows.                                  *)
(*   - a str is a sequence of one-character strings; "ENDASH" and          *)
(*     "EMDASH" stand for the single characters U+2013 and U+2014;         *)
(*   - a cell of a DataFrame is a record [kind, s, v]: a str, an int, a    *)
(*     whole-valued float, or a missing value (None / NaN);                *)
(*   - a DataFrame is a sequence of rows, each row carrying its index      *)
(*     label idx, which boolean-mask selection keeps;                      *)
(*   - a call either returns a value or raises: [exc, val].                *)
(***************************************************************************)
EXTENDS Integers, Sequences, FiniteSets, TLC

VARIABLES
    pc,                    \* where the script (or the harness) stands
    times_df,              \* the four source tables
    qs_df,
    usn_df,
    washington_df,
    selected_years,        \* sidebar: the selected years
    global_selected_uni,   \* sidebar: the comparator
    common_universities,   \* result of get_common_universities
    extra_unis,            \* the four extras lists
    times_filtered,        \* a filtered view
    call,                  \* the helper call being made: [fn, ...arguments]
    ret,                   \* its outcome: [exc, val]
    nj_filter,             \* sidebar: the regional filter
    tab_selected_uni,      \* per agency tab: the optional university chosen
    section,               \* TIMES tab: the section chosen
    memo,                  \* the st.cache_data caches
    run                    \* what the last run of the script produced

(* the variables only the caches and the whole-script runs use *)
session_vars == << nj_filter, tab_selected_uni, section, memo, run >>

vars == << pc, times_df, qs_df, usn_df, washington_df, selected_years,
           global_selected_uni, common_universities, extra_unis,
           times_filtered, call, ret, nj_filter, tab_selected_uni, section,
           memo, run >>

-----------------------------------------------------------------------------
(* Bounds of the model *)

MaxLen == 3        \* longest enumerated rank string

MaxRankRows == 4   \* most rows of a view given to build_rank_range_df

MaxReconRows == 2  \* most rows of a table given to the reconciler

MaxRows == 3       \* most rows of a table given to the filter

MaxEntries == 2    \* most results the two caches hold together

-----------------------------------------------------------------------------
(* Python values *)

None == [kind |-> "none", s |-> <<>>, v |-> 0]   \* None / NaN: a missing value

Str(s) == [kind |-> "str", s |-> s, v |-> 0]

Int_(v) == [kind |-> "int", s |-> <<>>, v |-> v]

Float(v) == [kind |-> "float", s |-> <<>>, v |-> v]   \* the float v.0

Returned(val) == [exc |-> "", val |-> val]

Raised(exc) == [exc |-> exc, val |-> None]

(* None where a university name is expected: it equals no name *)
NoSelection == "<None>"

NoCall == [fn |-> ""]

NoRet == [exc |-> "", val |-> None]

(* the four agencies, in the order of the tabs *)
Agencies == { "TIMES", "QS", "USN", "Washington" }

(* the first option of every tab's optional-university selectbox *)
GlobalOption == "Global Selected University"

(* both caches empty: a cache maps the hashed arguments to the result *)
NoMemo == [load |-> <<>>, common |-> <<>>, filtered |-> <<>>]

(* the script has not run *)
NoRun == [exc |-> "", at |-> "", out |-> <<>>]

(* the sidebar and the tabs as first rendered, nothing cached, nothing run *)
SessionIdle ==
    /\ nj_filter = "All"
    /\ tab_selected_uni = [a \in Agencies |-> GlobalOption]
    /\ section = "Teaching"
    /\ memo = NoMemo
    /\ run = NoRun

(* A rank triple (low, high, mid); isNone marks (None, None, None). *)
NoneTriple == [isNone |-> TRUE, low |-> 0, high |-> 0, mid |-> 0]

Triple(l, h, m) == [isNone |-> FALSE, low |-> l, high |-> h, mid |-> m]

-----------------------------------------------------------------------------
(* str methods and int() *)

Digits == {"0", "1", "2", "3", "4", "5", "6", "7", "8", "9"}

DigitVal(c) ==
    CASE c = "0" -> 0 [] c = "1" -> 1 [] c = "2" -> 2 [] c = "3" -> 3
      [] c = "4" -> 4 [] c = "5" -> 5 [] c = "6" -> 6 [] c = "7" -> 7
      [] c = "8" -> 8 [] c = "9" -> 9

DigitChar(d) ==
    CASE d = 0 -> "0" [] d = 1 -> "1" [] d = 2 -> "2" [] d = 3 -> "3"
      [] d = 4 -> "4" [] d = 5 -> "5" [] d = 6 -> "6" [] d = 7 -> "7"
      [] d = 8 -> "8" [] d = 9 -> "9"

Whitespace == {" "}

(* s.replace(old, new) for one-character old and new *)
replace(s, old, new) == [i \in 1..Len(s) |-> IF s[i] = old THEN new ELSE s[i]]

(* s.split(sep): n occurrences of sep give n + 1 parts, empty ones included *)
RECURSIVE split(_, _)
split(s, sep) ==
    IF \A i \in 1..Len(s) : s[i] # sep
    THEN << s >>
    ELSE LET i == CHOOSE k \in 1..Len(s) :
                      s[k] = sep /\ \A j \in 1..(k - 1) : s[j] # sep
         IN  << SubSeq(s, 1, i - 1) >> \o split(SubSeq(s, i + 1, Len(s)), sep)

(* s.strip() *)
RECURSIVE strip(_)
strip(s) ==
    IF Len(s) > 0 /\ s[1] \in Whitespace THEN strip(Tail(s))
    ELSE IF Len(s) > 0 /\ s[Len(s)] \in Whitespace
         THEN strip(SubSeq(s, 1, Len(s) - 1))
         ELSE s

(* the value of a digit string, underscores skipped *)
RECURSIVE DigitsValue(_, _)
DigitsValue(s, acc) ==
    IF s = <<>> THEN acc
    ELSE IF Head(s) = "_" THEN DigitsValue(Tail(s), acc)
         ELSE DigitsValue(Tail(s), 10 * acc + DigitVal(Head(s)))

(* the digit part int() accepts: digits, single underscores between digits *)
IsDigitBody(b) ==
    /\ Len(b) > 0
    /\ b[1] \in Digits
    /\ b[Len(b)] \in Digits
    /\ \A i \in 1..Len(b) : b[i] \in Digits \cup {"_"}
    /\ \A i \in 1..(Len(b) - 1) : ~(b[i] = "_" /\ b[i + 1] = "_")

(* int(s) for a str s, base 10: surrounding whitespace is stripped, one    *)
(* sign is allowed; anything else raises ValueError.                       *)
int(s) ==
    LET t      == strip(s)
        signed == Len(t) > 0 /\ t[1] \in {"+", "-"}
        body   == IF signed THEN Tail(t) ELSE t
        mag    == DigitsValue(body, 0)
    IN  IF IsDigitBody(body)
        THEN Returned(IF signed /\ t[1] = "-" THEN 0 - mag ELSE mag)
        ELSE Raised("ValueError")

(* the decimal digits of a natural number *)
RECURSIVE NatToStr(_)
NatToStr(n) ==
    IF n < 10 THEN << DigitChar(n) >>
    ELSE NatToStr(n \div 10) \o << DigitChar(n % 10) >>

(* str(x) *)
str(x) ==
    CASE x.kind = "str"   -> x.s
      [] x.kind = "int"   -> IF x.v < 0 THEN << "-" >> \o NatToStr(0 - x.v)
                             ELSE NatToStr(x.v)
      [] x.kind = "float" -> (IF x.v < 0 THEN << "-" >> \o NatToStr(0 - x.v)
                              ELSE NatToStr(x.v)) \o << ".", "0" >>
      [] x.kind = "none"  -> << "n", "a", "n" >>

-----------------------------------------------------------------------------
(* parse_rank_range *)

(* a faulty variant: the midpoint is rounded up *)
parse_rank_range_try_ceil(rank_str) ==
    IF rank_str.kind # "str"
    THEN Raised("AttributeError")
    ELSE LET parts == split(replace(rank_str.s, "ENDASH", "-"), "-")
         IN  IF Len(parts) = 2
             THEN LET a == int(parts[1])
                      b == int(parts[2])
                  IN  IF a.exc # "" THEN a
                      ELSE IF b.exc # "" THEN b
                      ELSE Returned(Triple(a.val, b.val,
                                           (a.val + b.val + 1) \div 2))
             ELSE LET val == int(rank_str.s)
                  IN  IF val.exc # "" THEN val
                      ELSE Returned(Triple(val.val, val.val, val.val))

(* a faulty variant: the single-token branch halves the value like the range branch *)
parse_rank_range_try_single_half(rank_str) ==
    IF rank_str.kind # "str"
    THEN Raised("AttributeError")
    ELSE LET parts == split(replace(rank_str.s, "ENDASH", "-"), "-")
         IN  IF Len(parts) = 2
             THEN LET a == int(parts[1])
                      b == int(parts[2])
                  IN  IF a.exc # "" THEN a
                      ELSE IF b.exc # "" THEN b
                      ELSE Returned(Triple(a.val, b.val, (a.val + b.val) \div 2))
             ELSE LET val == int(rank_str.s)
                  IN  IF val.exc # "" THEN val
                      ELSE Returned(Triple(val.val, val.val, val.val \div 2))

(* The try block of parse_rank_range.  rank_str is whatever the caller     *)
(* passes: .replace exists on str only, so any other value raises          *)
(* AttributeError.                                                         *)
parse_rank_range_try(rank_str) ==
    IF rank_str.kind # "str"
    THEN Raised("AttributeError")
    ELSE LET parts == split(replace(rank_str.s, "ENDASH", "-"), "-")
         IN  IF Len(parts) = 2
             THEN LET a == int(parts[1])
                      b == int(parts[2])
                  IN  IF a.exc # "" THEN a
                      ELSE IF b.exc # "" THEN b
                      ELSE Returned(Triple(a.val, b.val, (a.val + b.val) \div 2))
             ELSE LET val == int(rank_str.s)
                  IN  IF val.exc # "" THEN val
                      ELSE Returned(Triple(val.val, val.val, val.val))

(* a faulty variant: the bare except is missing, so a failure propagates *)
parse_rank_range_no_except(rank_str) == parse_rank_range_try(rank_str)

(* parse_rank_range: the bare except turns every failure into              *)
(* (None, None, None).                                                     *)
parse_rank_range(rank_str) ==
    LET r == parse_rank_range_try(rank_str)
    IN  IF r.exc # "" THEN Returned(NoneTriple) ELSE r

(* a faulty variant: the lambda passes the raw value, without str() *)
rank_lambda_no_str(r) == parse_rank_range(r)

(* the lambda of build_rank_range_df: parse_rank_range(str(r)) *)
rank_lambda(r) == parse_rank_range(Str(str(r)))

-----------------------------------------------------------------------------
(* Inputs of the rank parser *)

RankAlphabet == {"0", "1", "5", "-", "ENDASH", "N", " "}

RECURSIVE StringsUpTo(_, _)
StringsUpTo(alphabet, n) ==
    IF n = 0 THEN { <<>> }
    ELSE LET shorter == StringsUpTo(alphabet, n - 1)
         IN  shorter \cup { Append(s, c) : s \in shorter, c \in alphabet }

RankExamples ==
    { << "5", "0", "1", "-", "6", "0", "0" >>,
      << "5", "0", "1", "ENDASH", "6", "0", "0" >>,
      << "5", "0", "1", "-", "6", "0", "2" >>,
      << "5", "0", "1", "ENDASH", "6", "0", "2" >>,
      << "6", "0", "0", "-", "5", "0", "1" >>,
      << "4", "2" >>,
      << "4", "5" >>,
      << "N", "/", "A" >>,
      << "EMDASH" >>,
      << "4", "5", ".", "0" >>,
      << "+", "7" >>,
      << "1", "_", "0" >>,
      << "1", "-", "2", "-", "3" >>,
      << "1", "0", "-", "x" >>,
      << " ", "1", "0", " ", "-", " ", "2", "0", " " >> }

RankStrings == StringsUpTo(RankAlphabet, MaxLen) \cup RankExamples

RankInts == {0 - 5, 0, 7, 42, 45, 501}

RankArgs ==
    { Str(s) : s \in RankStrings } \cup { Int_(v) : v \in RankInts }
        \cup { Float(v) : v \in {45} } \cup { None }

-----------------------------------------------------------------------------
(* The rank parser driven over its inputs *)

Idle ==
    /\ times_df = <<>> /\ qs_df = <<>> /\ usn_df = <<>> /\ washington_df = <<>>
    /\ selected_years = {}
    /\ global_selected_uni = NoSelection
    /\ common_universities = {}
    /\ extra_unis = <<>>
    /\ times_filtered = <<>>

RankInit ==
    /\ SessionIdle
    /\ pc = "idle"
    /\ call = NoCall
    /\ ret = NoRet
    /\ Idle

(* parse_rank_range(arg), called directly *)
CallParseRankRange ==
    /\ pc = "idle"
    /\ \E arg \in RankArgs :
          /\ call' = [fn |-> "parse_rank_range", arg |-> arg]
          /\ ret' = parse_rank_range(arg)
    /\ pc' = "returned"
    /\ UNCHANGED session_vars
    /\ UNCHANGED << times_df, qs_df, usn_df, washington_df, selected_years,
                    global_selected_uni, common_universities, extra_unis,
                    times_filtered >>

(* parse_rank_range(str(r)), as build_rank_range_df calls it *)
CallRankLambda ==
    /\ pc = "idle"
    /\ \E arg \in RankArgs :
          /\ call' = [fn |-> "rank_lambda", arg |-> arg]
          /\ ret' = rank_lambda(arg)
    /\ pc' = "returned"
    /\ UNCHANGED session_vars
    /\ UNCHANGED << times_df, qs_df, usn_df, washington_df, selected_years,
                    global_selected_uni, common_universities, extra_unis,
                    times_filtered >>

RankNext == CallParseRankRange \/ CallRankLambda

SpecRank == RankInit /\ [][RankNext]_vars

-----------------------------------------------------------------------------
(* build_rank_range_df *)

(* pd.notna *)
notna(x) == x.kind # "none"

(* an integer or None as a cell *)
OptInt(isNone, v) == IF isNone THEN None ELSE Int_(v)

(* the row r with the triple t of its rank as the columns low, high, mid *)
with_range(r, metric_col, t) ==
    [idx |-> r.idx, Year |-> r.Year, IPEDS_Name |-> r.IPEDS_Name,
     metric |-> r[metric_col],
     low  |-> OptInt(t.isNone, t.low),
     high |-> OptInt(t.isNone, t.high),
     mid  |-> OptInt(t.isNone, t.mid)]

(* build_rank_range_df(df, metric_col).  The copy keeps the caller's table *)
(* untouched.  Rows with a missing metric are dropped, the lambda is       *)
(* applied to each remaining metric, its triple becomes the columns low,   *)
(* high and mid, and the rows with a missing mid are dropped.  On an empty *)
(* Series apply returns an empty Series, not a three-column frame, and     *)
(* assigning it to the three columns raises ValueError ("Columns must be   *)
(* same length as key"); nothing in the function catches it.               *)
build_rank_range_df(df, metric_col) ==
    LET Present(r)  == notna(r[metric_col])
        present     == SelectSeq(df, Present)
        WithRange(r) == with_range(r, metric_col, rank_lambda(r[metric_col]).val)
        ranged      == [i \in 1..Len(present) |-> WithRange(present[i])]
        HasMid(r)   == notna(r.mid)
    IN  IF Len(present) = 0
        THEN Raised("ValueError")
        ELSE Returned(SelectSeq(ranged, HasMid))

-----------------------------------------------------------------------------
(* build_rank_range_df driven over filtered views *)

NJIT_NAME == "New Jersey Institute of Technology"

RankCells ==
    { Str(<< "5", "0", "1", "-", "6", "0", "0" >>),
      Str(<< "6", "0", "0", "-", "5", "0", "1" >>),
      Str(<< "4", "5" >>),
      Str(<< "EMDASH" >>),
      Int_(45),
      Float(45),
      None }

(* the views of at most n rows whose Times_Rank cells are drawn from cells *)
RankViews(cells, n) ==
    UNION { [1..k -> cells] : k \in 0..n }

AsView(col) ==
    [i \in 1..Len(col) |->
        [idx |-> i - 1, Year |-> 2024, IPEDS_Name |-> NJIT_NAME,
         Times_Rank |-> col[i]]]

RankDfInit ==
    /\ SessionIdle
    /\ pc = "idle"
    /\ call = NoCall
    /\ ret = NoRet
    /\ times_df = <<>> /\ qs_df = <<>> /\ usn_df = <<>> /\ washington_df = <<>>
    /\ selected_years = {}
    /\ global_selected_uni = NoSelection
    /\ common_universities = {}
    /\ extra_unis = <<>>
    /\ \E col \in RankViews(RankCells, MaxRankRows) : times_filtered = AsView(col)

(* times_ranks = build_rank_range_df(times_filtered, "Times_Rank") *)
BuildTimesRanks ==
    /\ pc = "idle"
    /\ call' = [fn |-> "build_rank_range_df", metric_col |-> "Times_Rank"]
    /\ ret' = build_rank_range_df(times_filtered, "Times_Rank")
    /\ pc' = "returned"
    /\ UNCHANGED session_vars
    /\ UNCHANGED << times_df, qs_df, usn_df, washington_df, selected_years,
                    global_selected_uni, common_universities, extra_unis,
                    times_filtered >>

RankDfNext == BuildTimesRanks

SpecRankDf == RankDfInit /\ [][RankDfNext]_vars

-----------------------------------------------------------------------------
(* Institution names and their order *)

Names == {NJIT_NAME, "Rutgers", "rutgers"}

(* the code points of each name: Python compares str by code point *)
CodePoints(name) ==
    CASE name = NJIT_NAME ->
            << 78, 101, 119, 32, 74, 101, 114, 115, 101, 121, 32, 73, 110,
               115, 116, 105, 116, 117, 116, 101, 32, 111, 102, 32, 84, 101,
               99, 104, 110, 111, 108, 111, 103, 121 >>
      [] name = "Rutgers" -> << 82, 117, 116, 103, 101, 114, 115 >>
      [] name = "rutgers" -> << 114, 117, 116, 103, 101, 114, 115 >>
      [] name = "MIT" -> << 77, 73, 84 >>
      [] name = "Yale" -> << 89, 97, 108, 101 >>
      [] name = "nan" -> << 110, 97, 110 >>

RECURSIVE SeqLess(_, _)
SeqLess(x, y) ==
    IF y = <<>> THEN FALSE
    ELSE IF x = <<>> THEN TRUE
    ELSE IF Head(x) < Head(y) THEN TRUE
    ELSE IF Head(x) > Head(y) THEN FALSE
    ELSE SeqLess(Tail(x), Tail(y))

(* a < b on str *)
str_lt(a, b) == SeqLess(CodePoints(a), CodePoints(b))

(* sorted(l) for a list of str *)
RECURSIVE InsertSorted(_, _)
InsertSorted(x, l) ==
    IF l = <<>> THEN << x >>
    ELSE IF str_lt(Head(l), x) THEN << Head(l) >> \o InsertSorted(x, Tail(l))
    ELSE << x >> \o l

RECURSIVE sorted(_)
sorted(l) == IF l = <<>> THEN <<>> ELSE InsertSorted(Head(l), sorted(Tail(l)))

-----------------------------------------------------------------------------
(* The Institution Reconciler *)

(* df["IPEDS_Name"] as a list *)
IPEDS_Names(df) == [i \in 1..Len(df) |-> df[i].IPEDS_Name]

(* set(column) *)
set(column) == { column[i] : i \in 1..Len(column) }

(* Series.unique(): the values in order of first appearance *)
RECURSIVE unique(_)
unique(column) ==
    IF column = <<>> THEN <<>>
    ELSE LET init == unique(SubSeq(column, 1, Len(column) - 1))
             last == column[Len(column)]
         IN  IF last \in set(init) THEN init ELSE Append(init, last)

(* a faulty variant: the fourth table is left out of the intersection *)
get_common_universities_three(t, q, u, w) ==
    set(IPEDS_Names(t)) \cap set(IPEDS_Names(q)) \cap set(IPEDS_Names(u))

get_common_universities(t, q, u, w) ==
    set(IPEDS_Names(t)) \cap set(IPEDS_Names(q))
        \cap set(IPEDS_Names(u)) \cap set(IPEDS_Names(w))

(* a faulty variant: the anchor is not excluded *)
extra_unis_of_keep_anchor(df, common) ==
    LET Extra(u) == u \notin common
    IN  sorted(SelectSeq(unique(IPEDS_Names(df)), Extra))

(* sorted([u for u in df["IPEDS_Name"].unique()                            *)
(*         if (u not in common_universities and u != NJIT_NAME)])          *)
extra_unis_of(df, common) ==
    LET Extra(u) == u \notin common /\ u # NJIT_NAME
    IN  sorted(SelectSeq(unique(IPEDS_Names(df)), Extra))

-----------------------------------------------------------------------------
(* The reconciler driven over four tables *)

(* the tables of at most n rows over the given rows, indexed 0, 1, ... *)
Tables(rows, n) ==
    UNION { { [i \in 1..k |-> [idx |-> i - 1] @@ f[i]] : f \in [1..k -> rows] } :
               k \in 0..n }

NameRows == { [Year |-> 2024, IPEDS_Name |-> name] : name \in Names }

ReconInit ==
    /\ SessionIdle
    /\ pc = "loaded"
    /\ times_df \in Tables(NameRows, MaxReconRows)
    /\ qs_df \in Tables(NameRows, MaxReconRows)
    /\ usn_df \in Tables(NameRows, MaxReconRows)
    /\ washington_df \in Tables(NameRows, MaxReconRows)
    /\ selected_years = {}
    /\ global_selected_uni = NoSelection
    /\ common_universities = {}
    /\ extra_unis = <<>>
    /\ times_filtered = <<>>
    /\ call = NoCall
    /\ ret = NoRet

(* common_universities = get_common_universities(...) *)
IdentifyCommon ==
    /\ pc = "loaded"
    /\ common_universities' =
          get_common_universities(times_df, qs_df, usn_df, washington_df)
    /\ pc' = "reconciled"
    /\ UNCHANGED session_vars
    /\ UNCHANGED << times_df, qs_df, usn_df, washington_df, selected_years,
                    global_selected_uni, extra_unis, times_filtered, call, ret >>

(* extra_times_unis, extra_qs_unis, extra_usn_unis, extra_washington_unis *)
FindExtras ==
    /\ pc = "reconciled"
    /\ extra_unis' =
          [times      |-> extra_unis_of(times_df, common_universities),
           qs         |-> extra_unis_of(qs_df, common_universities),
           usn        |-> extra_unis_of(usn_df, common_universities),
           washington |-> extra_unis_of(washington_df, common_universities)]
    /\ pc' = "extras"
    /\ UNCHANGED session_vars
    /\ UNCHANGED << times_df, qs_df, usn_df, washington_df, selected_years,
                    global_selected_uni, common_universities, times_filtered,
                    call, ret >>

ReconNext == IdentifyCommon \/ FindExtras

SpecRecon == ReconInit /\ [][ReconNext]_vars

-----------------------------------------------------------------------------
(* The Selection & Filter Engine and the Metric Lookup *)

(* a faulty variant: the boolean mask is applied one row late *)
filter_years_unis_shifted(df, years, unis) ==
    LET Keep(i) == i > 1 /\ df[i - 1].Year \in years
                         /\ df[i - 1].IPEDS_Name \in unis
        RECURSIVE Pick(_)
        Pick(i) == IF i > Len(df) THEN <<>>
                   ELSE (IF Keep(i) THEN << df[i] >> ELSE <<>>) \o Pick(i + 1)
    IN  Pick(1)

(* a faulty variant: the two masks are joined with | instead of & *)
filter_years_unis_or(df, years, unis) ==
    LET Keep(r) == r.Year \in years \/ r.IPEDS_Name \in unis
    IN  SelectSeq(df, Keep)

(* df[(df["Year"].isin(years)) & (df["IPEDS_Name"].isin(unis))]: the rows  *)
(* the mask selects, with their index labels, in the order of df           *)
filter_years_unis(df, years, unis) ==
    LET Keep(r) == r.Year \in years /\ r.IPEDS_Name \in unis
    IN  SelectSeq(df, Keep)

(* the columns of the TIMES table the model carries *)
TimesColumns == {"Year", "IPEDS_Name", "Times_Rank"}

(* the rank column of each agency's table *)
RankCol ==
    [TIMES |-> "Times_Rank", QS |-> "QS_Rank", USN |-> "Rank",
     Washington |-> "Washington_Rank"]

(* the columns the model carries over the four tables; the script asks a   *)
(* table only for columns of its own                                       *)
ModelColumns ==
    TimesColumns \cup {"New_Jersey_University", "Teaching"}
                 \cup { RankCol[a] : a \in Agencies }

NA == Str(<< "N", "/", "A" >>)

(* a faulty variant: the last matching row is read, not the first *)
get_metric_value_try_last(df, university, column) ==
    LET Match(r) == r.IPEDS_Name = university
        matching == SelectSeq(df, Match)
    IN  IF column \notin ModelColumns THEN Raised("KeyError")
        ELSE IF Len(matching) = 0 THEN Raised("IndexError")
        ELSE LET val == matching[Len(matching)][column]
             IN  Returned(IF notna(val) THEN val ELSE NA)

(* The try block of get_metric_value: a column the table lacks raises      *)
(* KeyError, .values[0] of no row raises IndexError.                       *)
get_metric_value_try(df, university, column) ==
    LET Match(r) == r.IPEDS_Name = university
        matching == SelectSeq(df, Match)
    IN  IF column \notin ModelColumns THEN Raised("KeyError")
        ELSE IF Len(matching) = 0 THEN Raised("IndexError")
        ELSE LET val == matching[1][column]
             IN  Returned(IF notna(val) THEN val ELSE NA)

(* get_metric_value: the bare except answers "N/A" *)
get_metric_value(df, university, column) ==
    LET r == get_metric_value_try(df, university, column)
    IN  IF r.exc # "" THEN Returned(NA) ELSE r

-----------------------------------------------------------------------------
(* The Latest-Period Resolver and the KPI rows *)

(* df["Year"].unique() as a set *)
YearsOf(df) == { df[i].Year : i \in 1..Len(df) }

(* a faulty variant: the smallest year is taken *)
max_default_min(years) ==
    IF years = {} THEN None
    ELSE Int_(CHOOSE m \in years : \A y \in years : m <= y)

(* max(years, default=None) *)
max_default(years) ==
    IF years = {} THEN None
    ELSE Int_(CHOOSE m \in years : \A y \in years : y <= m)

(* Overview: max(times_filtered["Year"].unique(), default=None) *)
latest_years_of(filtered) == max_default(YearsOf(filtered))

(* a faulty variant: the years of the view are not consulted *)
latest_year_in_any(years, filtered) == max_default(years)

(* agency tab: max([y for y in selected_years                              *)
(*                  if y in times_filtered["Year"].unique()], default=None) *)
latest_year_in(years, filtered) ==
    max_default({ y \in years : y \in YearsOf(filtered) })

(* df[df["Year"] == year]; no row equals None *)
rows_of_year(df, year) ==
    LET InYear(r) == year.kind = "int" /\ r.Year = year.v
    IN  SelectSeq(df, InYear)

(* a faulty variant: each institution is read in its own latest year *)
kpi_value_own_year(filtered, year, university, column) ==
    LET Own(r) == r.IPEDS_Name = university
        own    == latest_years_of(SelectSeq(filtered, Own))
    IN  get_metric_value(rows_of_year(filtered, own), university, column)

(* get_metric_value(df[df["Year"] == year], university, metric) *)
kpi_value(filtered, year, university, column) ==
    get_metric_value(rows_of_year(filtered, year), university, column)

-----------------------------------------------------------------------------
(* The filter and the lookup driven over one source table *)

YearOptions == {2023, 2024}

TimesRows ==
    { [Year |-> y, IPEDS_Name |-> name, Times_Rank |-> rank] :
          y \in YearOptions, name \in Names,
          rank \in { Str(<< "4", "5" >>), None } }

AskedColumns == {"Times_Rank", "No_Such_Column"}

(* The sidebar offers the years of all four tables and the common          *)
(* universities other than the anchor (None when there is none), so the    *)
(* selection need not occur in this table.                                 *)
FilterInit ==
    /\ SessionIdle
    /\ pc = "loaded"
    /\ times_df \in Tables(TimesRows, MaxRows)
    /\ qs_df = <<>> /\ usn_df = <<>> /\ washington_df = <<>>
    /\ selected_years \in SUBSET YearOptions
    /\ global_selected_uni \in (Names \ {NJIT_NAME}) \cup {NoSelection}
    /\ common_universities = {}
    /\ extra_unis = <<>>
    /\ times_filtered = <<>>
    /\ call = NoCall
    /\ ret = NoRet

(* times_filtered = times_df[...] *)
FilterGlobally ==
    /\ pc = "loaded"
    /\ times_filtered' =
          filter_years_unis(times_df, selected_years,
                            {NJIT_NAME, global_selected_uni})
    /\ pc' = "filtered"
    /\ UNCHANGED session_vars
    /\ UNCHANGED << times_df, qs_df, usn_df, washington_df, selected_years,
                    global_selected_uni, common_universities, extra_unis,
                    call, ret >>

(* the same filter applied to the filtered view *)
FilterAgain ==
    /\ pc = "filtered"
    /\ call' = [fn |-> "filter_years_unis"]
    /\ ret' = Returned(filter_years_unis(times_filtered, selected_years,
                                         {NJIT_NAME, global_selected_uni}))
    /\ pc' = "returned"
    /\ UNCHANGED session_vars
    /\ UNCHANGED << times_df, qs_df, usn_df, washington_df, selected_years,
                    global_selected_uni, common_universities, extra_unis,
                    times_filtered >>

(* get_metric_value(times_filtered, university, column), for the anchor    *)
(* and for the comparator                                                  *)
GetMetricValue ==
    /\ pc = "filtered"
    /\ \E university \in {NJIT_NAME, global_selected_uni},
          column \in AskedColumns :
          /\ call' = [fn |-> "get_metric_value", university |-> university,
                      column |-> column]
          /\ ret' = get_metric_value(times_filtered, university, column)
    /\ pc' = "returned"
    /\ UNCHANGED session_vars
    /\ UNCHANGED << times_df, qs_df, usn_df, washington_df, selected_years,
                    global_selected_uni, common_universities, extra_unis,
                    times_filtered >>

(* latest_years["TIMES"] of the Overview and latest_times_year of the tab, *)
(* both taken on the filtered view                                         *)
ResolveLatest ==
    /\ pc = "filtered"
    /\ call' = [fn |-> "latest"]
    /\ ret' = Returned([overview |-> latest_years_of(times_filtered),
                        tab |-> latest_year_in(selected_years, times_filtered)])
    /\ pc' = "returned"
    /\ UNCHANGED session_vars
    /\ UNCHANGED << times_df, qs_df, usn_df, washington_df, selected_years,
                    global_selected_uni, common_universities, extra_unis,
                    times_filtered >>

(* the expression of latest_times_year on a table not yet filtered by year *)
ResolveLatestInTable ==
    /\ pc = "filtered"
    /\ call' = [fn |-> "latest_in_table"]
    /\ ret' = Returned([tab |-> latest_year_in(selected_years, times_df)])
    /\ pc' = "returned"
    /\ UNCHANGED session_vars
    /\ UNCHANGED << times_df, qs_df, usn_df, washington_df, selected_years,
                    global_selected_uni, common_universities, extra_unis,
                    times_filtered >>

(* the KPI pair of the Overview: year = latest_years[agency], then         *)
(* njit_val and other_val from df[df["Year"] == year]                      *)
OverviewKpi ==
    /\ pc = "filtered"
    /\ call' = [fn |-> "kpi", form |-> "overview"]
    /\ LET year == latest_years_of(times_filtered)
       IN  ret' = Returned(
              [year      |-> year,
               njit_val  |-> kpi_value(times_filtered, year, NJIT_NAME,
                                       "Times_Rank").val,
               other_val |-> kpi_value(times_filtered, year,
                                       global_selected_uni, "Times_Rank").val])
    /\ pc' = "returned"
    /\ UNCHANGED session_vars
    /\ UNCHANGED << times_df, qs_df, usn_df, washington_df, selected_years,
                    global_selected_uni, common_universities, extra_unis,
                    times_filtered >>

(* the KPI pair of the agency tab: kpi_row of latest_times_year *)
TabKpi ==
    /\ pc = "filtered"
    /\ call' = [fn |-> "kpi", form |-> "tab"]
    /\ LET year == latest_year_in(selected_years, times_filtered)
       IN  ret' = Returned(
              [year      |-> year,
               njit_val  |-> kpi_value(times_filtered, year, NJIT_NAME,
                                       "Times_Rank").val,
               other_val |-> kpi_value(times_filtered, year,
                                       global_selected_uni, "Times_Rank").val])
    /\ pc' = "returned"
    /\ UNCHANGED session_vars
    /\ UNCHANGED << times_df, qs_df, usn_df, washington_df, selected_years,
                    global_selected_uni, common_universities, extra_unis,
                    times_filtered >>

FilterNext ==
    \/ FilterGlobally \/ FilterAgain \/ GetMetricValue
    \/ ResolveLatest \/ ResolveLatestInTable \/ OverviewKpi \/ TabKpi

SpecFilter == FilterInit /\ [][FilterNext]_vars

-----------------------------------------------------------------------------
(* The combined table and the memoized helpers *)

(* a missing New_Jersey_University: NaN, equal to no string *)
Missing == "<NaN>"

(* a faulty variant: under "No" every row not flagged "Yes" is kept *)
get_filtered_combined_df_not_yes(_combined_df, common, nj) ==
    LET IsCommon(r) == r.IPEDS_Name \in common
        IsYes(r)    == r.New_Jersey_University = "Yes"
        NotYes(r)   == r.New_Jersey_University # "Yes"
        combined_common_df == SelectSeq(_combined_df, IsCommon)
    IN  IF nj = "Yes" THEN SelectSeq(combined_common_df, IsYes)
        ELSE IF nj = "No" THEN SelectSeq(combined_common_df, NotYes)
        ELSE combined_common_df

(* the body of get_filtered_combined_df: the rows whose name is in the     *)
(* common set, then, under "Yes" or "No", those whose flag equals it       *)
get_filtered_combined_df(_combined_df, common, nj) ==
    LET IsCommon(r) == r.IPEDS_Name \in common
        IsYes(r)    == r.New_Jersey_University = "Yes"
        IsNo(r)     == r.New_Jersey_University = "No"
        combined_common_df == SelectSeq(_combined_df, IsCommon)
    IN  IF nj = "Yes" THEN SelectSeq(combined_common_df, IsYes)
        ELSE IF nj = "No" THEN SelectSeq(combined_common_df, IsNo)
        ELSE combined_common_df

(* st.cache_data hashes the arguments of the call into the key; an         *)
(* argument whose name starts with an underscore is left out of the key    *)
key_common(t, q, u, w) == << t, q, u, w >>

key_filtered(_combined_df, common, nj) == << common, nj >>

(* a call through st.cache_data: the stored result when the key is in the  *)
(* cache, otherwise the computed value, which is then stored               *)
cache_data(cache, key, value) ==
    IF key \in DOMAIN cache
    THEN [val |-> cache[key], cache |-> cache]
    ELSE [val |-> value, cache |-> [k \in DOMAIN cache \cup {key} |->
                                       IF k = key THEN value ELSE cache[k]]]

(* the number of results held by the two caches *)
Entries(m) == Cardinality(DOMAIN m.common) + Cardinality(DOMAIN m.filtered)

-----------------------------------------------------------------------------
(* The memoized helpers driven over changing arguments *)

FlagRow(i, name, flag) ==
    [idx |-> i, Year |-> 2024, IPEDS_Name |-> name,
     New_Jersey_University |-> flag]

(* tables that differ in their names or only in a flag *)
MemoFrames ==
    { << FlagRow(0, NJIT_NAME, "Yes"), FlagRow(1, "Rutgers", "Yes") >>,
      << FlagRow(0, NJIT_NAME, "Yes"), FlagRow(1, "Rutgers", "No") >>,
      << FlagRow(0, NJIT_NAME, "Yes"), FlagRow(1, "rutgers", Missing) >>,
      << >> }

(* of these, two tables that differ in their names *)
NamedFrames ==
    { df \in MemoFrames :
         \E i \in 1..Len(df) : df[i].New_Jersey_University \in {"Yes", Missing}
                                  /\ df[i].IPEDS_Name # NJIT_NAME }

MemoCommonSets == { {NJIT_NAME, "Rutgers"}, {NJIT_NAME} }

NjOptions == { "All", "Yes", "No" }

MemoInit ==
    /\ pc = "idle"
    /\ call = NoCall
    /\ ret = NoRet
    /\ times_df = <<>> /\ qs_df = <<>> /\ usn_df = <<>> /\ washington_df = <<>>
    /\ selected_years = {}
    /\ global_selected_uni = NoSelection
    /\ common_universities = {}
    /\ extra_unis = <<>>
    /\ times_filtered = <<>>
    /\ SessionIdle

(* get_common_universities(times_df, qs_df, usn_df, washington_df), cached *)
CallGetCommonUniversities ==
    \E t \in NamedFrames, q \in NamedFrames, u \in NamedFrames,
       w \in NamedFrames :
        LET key == key_common(t, q, u, w)
            got == cache_data(memo.common, key,
                              get_common_universities(t, q, u, w))
        IN  /\ key \in DOMAIN memo.common \/ Entries(memo) < MaxEntries
            /\ call' = [fn |-> "get_common_universities",
                        times_df |-> t, qs_df |-> q, usn_df |-> u,
                        washington_df |-> w]
            /\ ret' = Returned(got.val)
            /\ memo' = [memo EXCEPT !.common = got.cache]
            /\ pc' = "returned"
            /\ UNCHANGED << nj_filter, tab_selected_uni, section, run >>
            /\ UNCHANGED << times_df, qs_df, usn_df, washington_df,
                            selected_years, global_selected_uni,
                            common_universities, extra_unis, times_filtered >>

(* get_filtered_combined_df(combined_df, common_universities, nj_filter),  *)
(* cached                                                                  *)
CallGetFilteredCombinedDf ==
    \E df \in MemoFrames, common \in MemoCommonSets, nj \in NjOptions :
        LET key == key_filtered(df, common, nj)
            got == cache_data(memo.filtered, key,
                              get_filtered_combined_df(df, common, nj))
        IN  /\ key \in DOMAIN memo.filtered \/ Entries(memo) < MaxEntries
            /\ call' = [fn |-> "get_filtered_combined_df",
                        _combined_df |-> df, common_universities |-> common,
                        nj_filter |-> nj]
            /\ ret' = Returned(got.val)
            /\ memo' = [memo EXCEPT !.filtered = got.cache]
            /\ pc' = "returned"
            /\ UNCHANGED << nj_filter, tab_selected_uni, section, run >>
            /\ UNCHANGED << times_df, qs_df, usn_df, washington_df,
                            selected_years, global_selected_uni,
                            common_universities, extra_unis, times_filtered >>

MemoNext == CallGetCommonUniversities \/ CallGetFilteredCombinedDf

SpecMemo == MemoInit /\ [][MemoNext]_vars

-----------------------------------------------------------------------------
(* The tables as loaded, and their normalization *)

(* a name as read from the sheet *)
Name(n) == [kind |-> "str", s |-> n, v |-> 0]

(* df["Year"].astype(int): an int, or the whole-valued float it was read as *)
astype_int(cell) == cell.v

(* df["IPEDS_Name"].astype(str): a missing name becomes the string "nan" *)
astype_str(cell) == IF cell.kind = "none" THEN "nan" ELSE cell.s

(* the loop over the four tables after load_data() *)
normalize(df) ==
    [i \in 1..Len(df) |->
        [df[i] EXCEPT !.Year = astype_int(@), !.IPEDS_Name = astype_str(@)]]

(* a table from its rows: the RangeIndex 0, 1, ... *)
Frame(rows) == [i \in 1..Len(rows) |-> [idx |-> i - 1] @@ rows[i]]

(* a row of agency a as read: year, name, region flag, rank *)
Raw(a, year, name, flag, rank) ==
    [Year |-> year, IPEDS_Name |-> Name(name), New_Jersey_University |-> flag]
       @@ (RankCol[a] :> rank)

(* a row of the TIMES sheet, which also has the Teaching score *)
TimesRaw(year, name, flag, rank, teaching) ==
    Raw("TIMES", year, name, flag, rank) @@ ("Teaching" :> teaching)

R501 == Str(<< "5", "0", "1", "-", "6", "0", "0" >>)

R45 == Str(<< "4", "5" >>)

(* four workbooks: what the four sheets may hold *)
LoadRegular ==
    [TIMES |-> Frame(<<
        TimesRaw(Int_(2024), NJIT_NAME, "Yes", R501, Float(30)),
        TimesRaw(Int_(2023), NJIT_NAME, "Yes", R501, None),
        TimesRaw(Int_(2023), "Rutgers", "Yes", R45, Float(45)),
        TimesRaw(Int_(2024), "Yale", "No", R45, Float(45)),
        TimesRaw(Int_(2024), "rutgers", Missing, None, None),
        TimesRaw(Int_(2024), "MIT", "No", R45, Float(45)) >>),
     QS |-> Frame(<<
        Raw("QS", Int_(2023), NJIT_NAME, "Yes", R501),
        Raw("QS", Int_(2024), "Rutgers", "Yes", R45),
        Raw("QS", Int_(2023), "Yale", "No", R45),
        Raw("QS", Int_(2024), "rutgers", Missing, R501) >>),
     USN |-> Frame(<<
        Raw("USN", Int_(2024), NJIT_NAME, "Yes", Int_(45)),
        Raw("USN", Int_(2024), "Rutgers", "Yes", Int_(42)),
        Raw("USN", Int_(2024), "Yale", "No", Int_(7)),
        Raw("USN", Int_(2023), "rutgers", Missing, None),
        Raw("USN", Int_(2023), "MIT", "No", Int_(0)) >>),
     Washington |-> Frame(<<
        Raw("Washington", Int_(2023), NJIT_NAME, "Yes", Int_(45)),
        Raw("Washington", Int_(2024), "Rutgers", "Yes", Int_(42)),
        Raw("Washington", Int_(2024), "Yale", "No", None),
        Raw("Washington", Int_(2024), "rutgers", Missing, Int_(7)) >>)]

(* years read as floats, the anchor flagged outside the region in one      *)
(* sheet, a row without a name                                             *)
LoadOdd ==
    [TIMES |-> Frame(<<
        TimesRaw(Float(2024), NJIT_NAME, "No", R45, Float(30)),
        TimesRaw(Float(2024), "Rutgers", "Yes", R501, Float(45)),
        [TimesRaw(Float(2023), "", "No", R45, None)
            EXCEPT !.IPEDS_Name = None] >>),
     QS |-> Frame(<<
        Raw("QS", Float(2024), NJIT_NAME, "Yes", R45),
        Raw("QS", Float(2023), "Rutgers", "Yes", R501),
        Raw("QS", Float(2023), "Yale", "No", R45) >>),
     USN |-> Frame(<<
        Raw("USN", Float(2023), NJIT_NAME, "Yes", Int_(45)),
        Raw("USN", Float(2023), "Rutgers", "Yes", Int_(42)) >>),
     Washington |-> Frame(<<
        Raw("Washington", Float(2024), NJIT_NAME, "Yes", Int_(45)),
        Raw("Washington", Float(2024), "Rutgers", "No", Int_(42)) >>)]

(* only the anchor is in all four sheets: no comparator can be offered *)
LoadAnchorOnly ==
    [TIMES |-> Frame(<<
        TimesRaw(Int_(2024), NJIT_NAME, "Yes", R501, Float(30)),
        TimesRaw(Int_(2024), "MIT", "No", R45, Float(45)) >>),
     QS |-> Frame(<<
        Raw("QS", Int_(2024), NJIT_NAME, "Yes", R501) >>),
     USN |-> Frame(<<
        Raw("USN", Int_(2023), NJIT_NAME, "Yes", Int_(45)),
        Raw("USN", Int_(2024), "Yale", "No", Int_(7)) >>),
     Washington |-> Frame(<<
        Raw("Washington", Int_(2024), NJIT_NAME, "Yes", Int_(45)) >>)]

Loads == { LoadRegular, LoadOdd, LoadAnchorOnly }

-----------------------------------------------------------------------------
(* One run of the script: from load_data() to the global selectbox *)

(* pd.concat([times_df, qs_df, usn_df, washington_df], ignore_index=True): *)
(* the rows one table after the other, renumbered, each with the columns   *)
(* of all four tables, NaN where its own table lacks the column            *)
concat(tables) ==
    LET all == tables["TIMES"] \o tables["QS"] \o tables["USN"]
                  \o tables["Washington"]
    IN  [i \in 1..Len(all) |->
            [c \in ModelColumns \cup {"idx"} |->
                IF c = "idx" THEN i - 1
                ELSE IF c \in DOMAIN all[i] THEN all[i][c]
                ELSE None]]

(* common_universities_filtered: the options of the global selectbox *)
options_of(combined_common_df) ==
    LET NotAnchor(u) == u # NJIT_NAME
    IN  sorted(SelectSeq(unique(IPEDS_Names(combined_common_df)), NotAnchor))

(* the years the sidebar offers *)
years_of(tables) == UNION { YearsOf(tables[a]) : a \in Agencies }

(* lines 36-79 under the caches m and the regional filter nj.  load_data() *)
(* is a cache hit on every run: a fresh copy of the tables first read,     *)
(* which the loop then normalizes                                          *)
Prologue(m, nj) ==
    LET loaded == m.load[<< >>]
        tables == [a \in Agencies |-> normalize(loaded[a])]
        c == cache_data(m.common,
                        key_common(tables["TIMES"], tables["QS"],
                                   tables["USN"], tables["Washington"]),
                        get_common_universities(tables["TIMES"], tables["QS"],
                                   tables["USN"], tables["Washington"]))
        combined_df == concat(tables)
        f == cache_data(m.filtered, key_filtered(combined_df, c.val, nj),
                        get_filtered_combined_df(combined_df, c.val, nj))
    IN  [tables |-> tables,
         common |-> c.val,
         years |-> years_of(tables),
         combined_df |-> combined_df,
         combined_common_df |-> f.val,
         options |-> options_of(f.val),
         extras |-> [a \in Agencies |-> extra_unis_of(tables[a], c.val)],
         memo |-> [m EXCEPT !.common = c.cache, !.filtered = f.cache]]

(* st.sidebar.selectbox(label, options) without a key: the widget is       *)
(* identified by its label and options, so it keeps the chosen value while *)
(* the options stay the same and starts again at the first option (None    *)
(* without options) when they change                                       *)
selectbox(old_options, old_value, options) ==
    IF options = old_options THEN old_value
    ELSE IF options = << >> THEN NoSelection
    ELSE options[1]

-----------------------------------------------------------------------------
(* One run of the script: the global views, the Overview, the four tabs *)

(* df[["Year", "IPEDS_Name", col]]: a new table of these columns *)
select_columns(df, cols) ==
    [i \in 1..Len(df) |-> [c \in cols \cup {"idx"} |-> df[i][c]]]

(* df.sort_values("Year"), rows of one year staying in their order (the    *)
(* tables of a chart are short)                                            *)
RECURSIVE sort_values_Year(_)
sort_values_Year(df) ==
    IF df = << >> THEN << >>
    ELSE LET last == df[Len(df)]
             init == sort_values_Year(SubSeq(df, 1, Len(df) - 1))
             NotAfter(r) == r.Year <= last.Year
             After(r) == r.Year > last.Year
         IN  SelectSeq(init, NotAfter) \o << last >> \o SelectSeq(init, After)

(* the table plot_chart_sorted draws: a copy of df, sorted by the numeric  *)
(* Year, the Year then turned into a str                                   *)
plot_chart_sorted(df, metric_col) ==
    LET sorted_df == sort_values_Year(df)
    IN  [i \in 1..Len(sorted_df) |->
            [sorted_df[i] EXCEPT !.Year = str(Int_(@))]]

(* a faulty variant: the views are cut from the rows the regional filter  *)
(* left in the combined table                                              *)
global_views_in_region(pro, global, years) ==
    [a \in Agencies |->
        filter_years_unis(pro.tables[a], years,
            {NJIT_NAME, global} \cap set(IPEDS_Names(pro.combined_common_df)))]

(* times_filtered, qs_filtered, usn_filtered, washington_filtered: each    *)
(* source by the selected years and the pair {anchor, comparator}          *)
global_views(pro, global, years) ==
    [a \in Agencies |->
        filter_years_unis(pro.tables[a], years, {NJIT_NAME, global})]

(* the names the script binds: the four sources, the common set, the four  *)
(* *_filtered views and the views bound inside the USN and Washington tabs *)
Env(tables, common, filtered) ==
    [tables |-> tables, common |-> common, filtered |-> filtered,
     tab_filtered |-> [a \in Agencies |-> << >>]]

(* a faulty variant: the tab binds its view to the name of the source *)
assign_tab_view_to_source(env, a, view) ==
    [env EXCEPT !.tables[a] = view]

(* the assignment of the tab's view: the TIMES and QS tabs bind it to      *)
(* times_filtered and qs_filtered, the names of the global views; the USN  *)
(* and Washington tabs bind usn_filtered_tab and washington_filtered_tab   *)
assign_tab_view(env, a, view) ==
    IF a \in {"TIMES", "QS"}
    THEN [env EXCEPT !.filtered[a] = view]
    ELSE [env EXCEPT !.tab_filtered[a] = view]

(* the view the tab of agency a reads after its assignment *)
tab_view(env, a) ==
    IF a \in {"TIMES", "QS"} THEN env.filtered[a] ELSE env.tab_filtered[a]

(* a faulty variant: the override of the TIMES tab is used by every tab *)
final_uni_of_times_tab(selected, a, global) ==
    IF selected["TIMES"] = GlobalOption THEN global ELSE selected["TIMES"]

(* final_times_uni, final_qs_uni, final_usn_uni, final_washington_uni *)
final_uni(selected, a, global) ==
    IF selected[a] = GlobalOption THEN global ELSE selected[a]

(* the head of the tab of agency a: the view, the latest year, the KPIs *)
tab_step(env, a, years, university) ==
    assign_tab_view(env, a,
        filter_years_unis(env.tables[a], years, {NJIT_NAME, university}))

tab_out(env, a, years, university) ==
    LET view == tab_view(env, a)
        latest == latest_year_in(years, view)
    IN  [final_uni |-> university,
         view |-> view,
         latest |-> latest,
         njit_val |-> kpi_value(view, latest, NJIT_NAME, RankCol[a]).val,
         other_val |-> kpi_value(view, latest, university, RankCol[a]).val]

(* what the Overview has shown when it ends: an exception of the TIMES    *)
(* chart ends the run before the QS chart                                  *)
overview_out(latest_years, kpi_data, times_ranks, qs_ranks) ==
    [latest_years |-> latest_years,
     kpi_data |-> kpi_data,
     exc |-> IF times_ranks.exc # "" THEN times_ranks.exc ELSE qs_ranks.exc,
     at |-> IF times_ranks.exc # "" THEN "TIMES Rank"
            ELSE IF qs_ranks.exc # "" THEN "QS Rank" ELSE "",
     times_ranks |-> IF times_ranks.exc # "" THEN << >> ELSE times_ranks.val,
     qs_ranks |-> IF times_ranks.exc # "" \/ qs_ranks.exc # "" THEN << >>
                  ELSE qs_ranks.val]

(* kpi_data: per agency the latest year and the two values read in it *)
kpi_data_of(filtered, latest_years, global) ==
    [a \in Agencies |->
        [year |-> latest_years[a],
         njit_val |-> kpi_value(filtered[a], latest_years[a],
                                NJIT_NAME, RankCol[a]).val,
         other_val |-> kpi_value(filtered[a], latest_years[a],
                                 global, RankCol[a]).val]]

(* the Overview: latest_years, kpi_data, then the rank charts, of which    *)
(* the TIMES and the QS chart call build_rank_range_df                     *)
overview(filtered, global) ==
    overview_out([a \in Agencies |-> latest_years_of(filtered[a])],
                 kpi_data_of(filtered,
                             [a \in Agencies |-> latest_years_of(filtered[a])],
                             global),
                 build_rank_range_df(filtered["TIMES"], "Times_Rank"),
                 build_rank_range_df(filtered["QS"], "QS_Rank"))

-----------------------------------------------------------------------------
(* The session: every interaction runs the whole script again *)

Sections == { "Teaching", "Research Performance" }

(* the four agency tabs, in the order of the script: each binds its view  *)
(* and shows its latest year and its KPIs; the TIMES tab then prepares the *)
(* chart of the chosen section                                             *)
tabs_out(e1, e2, e3, e4, years, uni, sect) ==
    [env |-> e4,
     tabs |-> [TIMES |-> tab_out(e1, "TIMES", years, uni["TIMES"]),
               QS |-> tab_out(e2, "QS", years, uni["QS"]),
               USN |-> tab_out(e3, "USN", years, uni["USN"]),
               Washington |-> tab_out(e4, "Washington", years,
                                      uni["Washington"])],
     chart |-> IF sect = "Teaching"
               THEN plot_chart_sorted(
                       select_columns(tab_view(e1, "TIMES"),
                                      {"Year", "IPEDS_Name", "Teaching"}),
                       "Teaching")
               ELSE << >>]

tabs_3(e1, e2, e3, years, uni, sect) ==
    tabs_out(e1, e2, e3, tab_step(e3, "Washington", years, uni["Washington"]),
             years, uni, sect)

tabs_2(e1, e2, years, uni, sect) ==
    tabs_3(e1, e2, tab_step(e2, "USN", years, uni["USN"]), years, uni, sect)

tabs_1(e1, years, uni, sect) ==
    tabs_2(e1, tab_step(e1, "QS", years, uni["QS"]), years, uni, sect)

tabs_of(env0, years, uni, sect) ==
    tabs_1(tab_step(env0, "TIMES", years, uni["TIMES"]), years, uni, sect)

(* the state a run leaves.  An exception raised in the Overview ends the   *)
(* run: the four agency tabs, which come later in the script, are not      *)
(* reached, and the names keep the values bound before the Overview.       *)
script_out(pro, global, env0, ov, tabs) ==
    [tables |-> IF ov.exc = "" THEN tabs.env.tables ELSE env0.tables,
     common |-> IF ov.exc = "" THEN tabs.env.common ELSE env0.common,
     times_filtered |-> IF ov.exc = "" THEN tabs.env.filtered["TIMES"]
                        ELSE env0.filtered["TIMES"],
     extras |-> pro.extras,
     global |-> global,
     memo |-> pro.memo,
     run |->
       [exc |-> ov.exc,
        at |-> ov.at,
        out |->
          [options |-> pro.options,
           extras_shown |-> pro.extras,
           combined_common_df |-> pro.combined_common_df,
           views |-> env0.filtered,
           latest_years |-> ov.latest_years,
           kpi_data |-> ov.kpi_data,
           times_ranks |-> ov.times_ranks,
           qs_ranks |-> ov.qs_ranks,
           tabs |-> IF ov.exc = "" THEN tabs.tabs ELSE << >>,
           chart |-> IF ov.exc = "" THEN tabs.chart ELSE << >>]]]

(* from the global views on: the Overview, then the tabs *)
script_views(pro, global, env0, years, selected, sect) ==
    script_out(pro, global, env0,
               overview(env0.filtered, global),
               tabs_of(env0, years,
                       [a \in Agencies |-> final_uni(selected, a, global)],
                       sect))

(* from the global selectbox on: the four global views (lines 82-100) *)
script_global(pro, global, years, selected, sect) ==
    script_views(pro, global,
                 Env(pro.tables, pro.common, global_views(pro, global, years)),
                 years, selected, sect)

(* from the sidebar on: the global selectbox (line 73) *)
script_sidebar(pro, years, old_options, old_value, selected, sect) ==
    script_global(pro, selectbox(old_options, old_value, pro.options),
                  years, selected, sect)

(* the whole script, given the caches m, the widget values of this run and *)
(* the options and the value the global selectbox had in the run before    *)
Script(m, years, nj, old_options, old_value, selected, sect) ==
    script_sidebar(Prologue(m, nj), years, old_options, old_value, selected,
                   sect)

(* the first run: the workbooks are read, every year is selected, every    *)
(* selectbox stands at its first option                                    *)
Init ==
    \E files \in Loads :
      \E s \in { Script([NoMemo EXCEPT !.load = (<< >> :> files)],
                          years_of([a \in Agencies |-> normalize(files[a])]),
                          "All", << >>, NoSelection,
                          [a \in Agencies |-> GlobalOption], "Teaching") } :
            /\ pc = "ran"
            /\ call = NoCall
            /\ ret = NoRet
            /\ times_df = s.tables["TIMES"]
            /\ qs_df = s.tables["QS"]
            /\ usn_df = s.tables["USN"]
            /\ washington_df = s.tables["Washington"]
            /\ common_universities = s.common
            /\ extra_unis = [times |-> s.extras["TIMES"],
                             qs |-> s.extras["QS"],
                             usn |-> s.extras["USN"],
                             washington |-> s.extras["Washington"]]
            /\ times_filtered = s.times_filtered
            /\ selected_years =
                  years_of([a \in Agencies |-> normalize(files[a])])
            /\ nj_filter = "All"
            /\ global_selected_uni = s.global
            /\ tab_selected_uni = [a \in Agencies |-> GlobalOption]
            /\ section = "Teaching"
            /\ memo = s.memo
            /\ run = s.run

(* a rerun of the script with the widgets at the given values *)
Rerun(years, nj, value, selected, sect) ==
    \E s \in { Script(memo, years, nj, run.out.options, value, selected,
                      sect) } :
        /\ pc' = "ran"
        /\ call' = NoCall
        /\ ret' = NoRet
        /\ times_df' = s.tables["TIMES"]
        /\ qs_df' = s.tables["QS"]
        /\ usn_df' = s.tables["USN"]
        /\ washington_df' = s.tables["Washington"]
        /\ common_universities' = s.common
        /\ extra_unis' = [times |-> s.extras["TIMES"],
                          qs |-> s.extras["QS"],
                          usn |-> s.extras["USN"],
                          washington |-> s.extras["Washington"]]
        /\ times_filtered' = s.times_filtered
        /\ selected_years' = years
        /\ nj_filter' = nj
        /\ global_selected_uni' = s.global
        /\ tab_selected_uni' = selected
        /\ section' = sect
        /\ memo' = s.memo
        /\ run' = s.run

(* the user changes the selected years *)
ChangeYears ==
    \E years \in SUBSET (YearsOf(times_df) \cup YearsOf(qs_df)
                            \cup YearsOf(usn_df) \cup YearsOf(washington_df)) :
        /\ years # selected_years
        /\ Rerun(years, nj_filter, global_selected_uni, tab_selected_uni,
                 section)

(* the user changes the regional filter *)
ChangeNjFilter ==
    \E nj \in NjOptions :
        /\ nj # nj_filter
        /\ Rerun(selected_years, nj, global_selected_uni, tab_selected_uni,
                 section)

(* the user picks another comparator in the sidebar *)
ChangeGlobalUni ==
    \E u \in set(run.out.options) :
        /\ u # global_selected_uni
        /\ Rerun(selected_years, nj_filter, u, tab_selected_uni, section)

(* the user picks an option in the selectbox of one agency tab; the tabs   *)
(* are on the page only when the run reached them                          *)
ChangeTabUni ==
    /\ run.exc = ""
    /\ \E a \in Agencies :
          \E u \in {GlobalOption} \cup set(run.out.extras_shown[a]) :
              /\ u # tab_selected_uni[a]
              /\ Rerun(selected_years, nj_filter, global_selected_uni,
                       [tab_selected_uni EXCEPT ![a] = u], section)

(* the user picks another section of the TIMES tab *)
ChangeSection ==
    /\ run.exc = ""
    /\ \E sect \in Sections :
          /\ sect # section
          /\ Rerun(selected_years, nj_filter, global_selected_uni,
                   tab_selected_uni, sect)

Next ==
    \/ ChangeYears \/ ChangeNjFilter \/ ChangeGlobalUni
    \/ ChangeTabUni \/ ChangeSection

Spec == Init /\ [][Next]_vars

-----------------------------------------------------------------------------
(* Properties of the rank parser (SpecRank) *)

(* The grammar of rank strings, stated on the characters.  An integer      *)
(* token is what int() reads as a non-negative number: a run of digits     *)
(* (single underscores allowed between digits), an optional leading "+",   *)
(* optional surrounding whitespace.                                        *)
IsDigitRun(b) ==
    /\ Len(b) > 0
    /\ \A k \in 1..Len(b) :
          \/ b[k] \in Digits
          \/ /\ b[k] = "_"
             /\ k > 1 /\ k < Len(b)
             /\ b[k - 1] \in Digits /\ b[k + 1] \in Digits

IsIntToken(s) ==
    \E i, j \in 1..Len(s) :
       /\ i <= j
       /\ \A k \in 1..(i - 1) : s[k] \in Whitespace
       /\ \A k \in (j + 1)..Len(s) : s[k] \in Whitespace
       /\ s[i] \notin Whitespace /\ s[j] \notin Whitespace
       /\ IsDigitRun(IF s[i] = "+" THEN SubSeq(s, i + 1, j) ELSE SubSeq(s, i, j))

IsDigit(c) == c \in Digits

(* the number a digit string denotes, by place value from the right *)
RECURSIVE DecimalValue(_)
DecimalValue(d) ==
    IF Len(d) = 0 THEN 0
    ELSE 10 * DecimalValue(SubSeq(d, 1, Len(d) - 1)) + DigitVal(d[Len(d)])

TokenValue(s) == DecimalValue(SelectSeq(s, IsDigit))

RangeSeparators == {"-", "ENDASH"}

(* s is two integer tokens around the one separator at position i *)
IsRangeAt(s, i) ==
    /\ i \in 1..Len(s)
    /\ s[i] \in RangeSeparators
    /\ IsIntToken(SubSeq(s, 1, i - 1))
    /\ IsIntToken(SubSeq(s, i + 1, Len(s)))

IsRange(s) == \E i \in 1..Len(s) : IsRangeAt(s, i)

(* floor(n / 2), stated without division *)
FloorHalf(n) == CHOOSE m \in 0..n : 2 * m <= n /\ n < 2 * m + 2

ParsedDirectly == pc = "returned" /\ call.fn = "parse_rank_range"

ParsedViaStr == pc = "returned" /\ call.fn = "rank_lambda"

(* C5: a rank string of two integer tokens a and b around one hyphen or    *)
(* one en-dash parses to (a, b, floor((a + b) / 2)), a and b in textual    *)
(* order, whichever of the two separators is used; "501-600" gives         *)
(* (501, 600, 550) and "501-602" gives the midpoint 551.                   *)
C5_RangeParse ==
    (ParsedDirectly /\ call.arg.kind = "str") =>
        /\ \A i \in 1..Len(call.arg.s) :
              IsRangeAt(call.arg.s, i) =>
                 LET a == TokenValue(SubSeq(call.arg.s, 1, i - 1))
                     b == TokenValue(SubSeq(call.arg.s, i + 1, Len(call.arg.s)))
                 IN  ret = Returned(Triple(a, b, FloorHalf(a + b)))
        /\ \A sep \in RangeSeparators :
              /\ call.arg.s = << "5", "0", "1", sep, "6", "0", "0" >>
                    => ret = Returned(Triple(501, 600, 550))
              /\ call.arg.s = << "5", "0", "1", sep, "6", "0", "2" >>
                    => ret = Returned(Triple(501, 602, 551))

C5_Witness ==
    /\ ParsedDirectly
    /\ call.arg = Str(<< "5", "0", "1", "ENDASH", "6", "0", "2" >>)
    /\ ret.exc = ""
    /\ ret.val.mid = 551

(* C6: a rank string that is one integer token v, with no hyphen and no    *)
(* en-dash, parses to low = high = mid = v.                                *)
C6_SingleParse ==
    (ParsedDirectly /\ call.arg.kind = "str" /\ IsIntToken(call.arg.s)) =>
        LET v == TokenValue(call.arg.s)
        IN  ret = Returned(Triple(v, v, v))

C6_Witness ==
    /\ ParsedDirectly
    /\ call.arg = Str(<< "4", "2" >>)
    /\ ret = Returned(Triple(42, 42, 42))

(* C7: parse_rank_range never raises, and every argument that is neither   *)
(* one integer token nor two integer tokens around one separator yields    *)
(* (None, None, None).                                                     *)
C7_ParseTotal ==
    ParsedDirectly =>
        /\ ret.exc = ""
        /\ (\/ call.arg.kind # "str"
            \/ ~IsIntToken(call.arg.s) /\ ~IsRange(call.arg.s))
              => ret = Returned(NoneTriple)

C7_Witness ==
    /\ ParsedDirectly
    /\ call.arg = Str(<< "N", "/", "A" >>)
    /\ ret = Returned(NoneTriple)

(* C8 as claimed: the parser, given an integer v, returns (v, v, v); this  *)
(* is stated of parse_rank_range itself and of its call through str().     *)
C8_ParseCoercesInt ==
    (pc = "returned" /\ call.fn \in {"parse_rank_range", "rank_lambda"}
                     /\ call.arg.kind = "int") =>
        ret = Returned(Triple(call.arg.v, call.arg.v, call.arg.v))

(* C8, amended: parse_rank_range does not coerce: given an integer it      *)
(* returns (None, None, None).  Its caller coerces with str(), and through *)
(* that call a non-negative integer v yields (v, v, v), the result for     *)
(* the decimal string of v, while a negative integer yields                *)
(* (None, None, None).                                                     *)
C8_CallerCoercesInt ==
    /\ (ParsedDirectly /\ call.arg.kind = "int") => ret = Returned(NoneTriple)
    /\ (ParsedViaStr /\ call.arg.kind = "int") =>
          IF call.arg.v >= 0
          THEN ret = Returned(Triple(call.arg.v, call.arg.v, call.arg.v))
          ELSE ret = Returned(NoneTriple)

C8_Witness ==
    /\ ParsedViaStr
    /\ call.arg = Int_(42)
    /\ ret = Returned(Triple(42, 42, 42))

-----------------------------------------------------------------------------
(* Properties of build_rank_range_df (SpecRankDf) *)

RankDfBuilt == pc = "returned" /\ call.fn = "build_rank_range_df"

(* the positions of the rows build_rank_range_df is to keep *)
KeptPositions(df) ==
    { i \in 1..Len(df) :
         /\ df[i].Times_Rank.kind # "none"
         /\ ~parse_rank_range(Str(str(df[i].Times_Rank))).val.isNone }

(* C9: for every table, the empty one included, build_rank_range_df        *)
(* returns exactly the rows whose metric is present and whose rank parses, *)
(* in the original order, each with the low, high and mid of its rank;     *)
(* for the column ["501-600", "45", em-dash, None] two rows survive, with  *)
(* mids 550 and 45.                                                        *)
C9_RankRangeRows ==
    RankDfBuilt =>
        /\ ret.exc = ""
        /\ LET out  == ret.val
               keep == KeptPositions(times_filtered)
           IN  /\ Len(out) = Cardinality(keep)
               /\ \A k \in 1..Len(out) :
                     /\ out[k].idx + 1 \in keep
                     /\ k > 1 => out[k - 1].idx < out[k].idx
                     /\ LET src == times_filtered[out[k].idx + 1]
                            t   == parse_rank_range(Str(str(src.Times_Rank))).val
                        IN  /\ out[k].metric = src.Times_Rank
                            /\ out[k].low = Int_(t.low)
                            /\ out[k].high = Int_(t.high)
                            /\ out[k].mid = Int_(t.mid)

(* what holds of build_rank_range_df: the statement of C9 for the tables   *)
(* with at least one present metric; with none it raises ValueError        *)
C9_RowsWhenSomePresent ==
    RankDfBuilt =>
        IF \A i \in 1..Len(times_filtered) :
              times_filtered[i].Times_Rank.kind = "none"
        THEN ret = Raised("ValueError")
        ELSE C9_RankRangeRows

(* the scenario of C9 runs as claimed: two rows, mids 550 and 45 *)
C9_Scenario ==
    (/\ RankDfBuilt
     /\ Len(times_filtered) = 4
     /\ times_filtered[1].Times_Rank = Str(<< "5", "0", "1", "-", "6", "0", "0" >>)
     /\ times_filtered[2].Times_Rank = Str(<< "4", "5" >>)
     /\ times_filtered[3].Times_Rank = Str(<< "EMDASH" >>)
     /\ times_filtered[4].Times_Rank = None)
        => /\ ret.exc = ""
           /\ Len(ret.val) = 2
           /\ ret.val[1].mid = Int_(550)
           /\ ret.val[2].mid = Int_(45)

-----------------------------------------------------------------------------
(* Properties of the reconciler (SpecRecon) *)

(* the identifiers occurring in a table *)
IdsOf(df) == { df[i].IPEDS_Name : i \in 1..Len(df) }

Sources == {"times", "qs", "usn", "washington"}

SourceTable(s) ==
    CASE s = "times" -> times_df
      [] s = "qs" -> qs_df
      [] s = "usn" -> usn_df
      [] s = "washington" -> washington_df

(* C1: the common set is exactly the intersection of the four identifier   *)
(* sets: it is contained in each of them, and every identifier present in  *)
(* all four tables is in it; identifiers match by exact string value.      *)
C1_Intersection ==
    pc \in {"reconciled", "extras"} =>
        /\ \A s \in Sources : common_universities \subseteq IdsOf(SourceTable(s))
        /\ \A name \in Names :
              (\A s \in Sources : \E i \in 1..Len(SourceTable(s)) :
                    SourceTable(s)[i].IPEDS_Name = name)
                 => name \in common_universities

(* "Rutgers" is common while "rutgers" occurs in three tables only *)
C1_Witness ==
    /\ pc = "reconciled"
    /\ common_universities = {"Rutgers"}
    /\ "rutgers" \in IdsOf(times_df) \cap IdsOf(qs_df) \cap IdsOf(usn_df)
    /\ "rutgers" \notin IdsOf(washington_df)

(* C2: each extras list is strictly ascending (sorted, without duplicate)  *)
(* and holds exactly the identifiers of its table that are neither common  *)
(* nor the anchor; so it is disjoint from the common set and never holds   *)
(* the anchor.                                                             *)
C2_Extras ==
    pc = "extras" =>
        \A s \in Sources :
           LET l == extra_unis[s]
           IN  /\ \A k \in 1..(Len(l) - 1) : str_lt(l[k], l[k + 1])
               /\ { l[k] : k \in 1..Len(l) } =
                     (IdsOf(SourceTable(s)) \ common_universities) \ {NJIT_NAME}
               /\ \A k \in 1..Len(l) :
                     l[k] \notin common_universities /\ l[k] # NJIT_NAME

(* a table listing "rutgers" before "Rutgers", and the anchor, none common *)
C2_Witness ==
    /\ pc = "extras"
    /\ Len(usn_df) = 2
    /\ usn_df[1].IPEDS_Name = "rutgers"
    /\ usn_df[2].IPEDS_Name = "Rutgers"
    /\ NJIT_NAME \in IdsOf(times_df)
    /\ NJIT_NAME \notin common_universities
    /\ extra_unis["usn"] = << "Rutgers", "rutgers" >>
    /\ extra_unis["times"] # << NJIT_NAME >>

-----------------------------------------------------------------------------
(* Properties of the filter and of the lookup (SpecFilter) *)

Filtered == pc \in {"filtered", "returned"}

(* the positions of the rows of the source the selection asks for *)
WantedPositions ==
    { i \in 1..Len(times_df) :
         /\ times_df[i].Year \in selected_years
         /\ \/ times_df[i].IPEDS_Name = NJIT_NAME
            \/ times_df[i].IPEDS_Name = global_selected_uni }

(* C3: the filtered view holds exactly the rows of the table whose year is *)
(* selected and whose identifier is the anchor or the comparator, each     *)
(* once, in the order of the table.                                        *)
C3_FilterExact ==
    Filtered =>
        /\ Len(times_filtered) = Cardinality(WantedPositions)
        /\ \A k \in 1..Len(times_filtered) :
              /\ times_filtered[k].idx + 1 \in WantedPositions
              /\ times_filtered[k] = times_df[times_filtered[k].idx + 1]
              /\ k > 1 => times_filtered[k - 1].idx < times_filtered[k].idx

(* two rows kept around a dropped one *)
C3_Witness ==
    /\ pc = "filtered"
    /\ Len(times_df) = 3
    /\ Len(times_filtered) = 2
    /\ times_filtered[1].idx = 0
    /\ times_filtered[2].idx = 2
    /\ times_filtered[1].IPEDS_Name = global_selected_uni
    /\ times_filtered[2].IPEDS_Name = NJIT_NAME

(* C4: filtering the filtered view again, by the same years and the same   *)
(* pair, returns the same view.                                            *)
C4_FilterIdempotent ==
    (pc = "returned" /\ call.fn = "filter_years_unis") =>
        ret = Returned(times_filtered)

(* a view that lost rows of its table and is filtered again *)
C4_Witness ==
    /\ pc = "returned"
    /\ call.fn = "filter_years_unis"
    /\ Len(times_filtered) = 2
    /\ Len(times_df) = 3
    /\ ret.val = times_filtered

(* the positions of the rows of the view carrying the asked university *)
MatchingPositions ==
    { i \in 1..Len(times_filtered) :
         times_filtered[i].IPEDS_Name = call.university }

FirstMatching == CHOOSE i \in MatchingPositions :
                    \A j \in MatchingPositions : i <= j

(* C10: get_metric_value never raises; it returns the value the FIRST row  *)
(* of the asked university has in the asked column when that value is      *)
(* present, and "N/A" when no row matches, the column does not exist or    *)
(* that first row's value is missing.                                      *)
C10_LookupTotal ==
    (pc = "returned" /\ call.fn = "get_metric_value") =>
        /\ ret.exc = ""
        /\ IF \/ MatchingPositions = {}
              \/ call.column # "Times_Rank"
           THEN ret.val = NA
           ELSE IF times_filtered[FirstMatching].Times_Rank.kind = "none"
                THEN ret.val = NA
                ELSE ret.val = times_filtered[FirstMatching].Times_Rank

(* the first row of the anchor lacks the value a later row of it has *)
C10_Witness ==
    /\ pc = "returned"
    /\ call.fn = "get_metric_value"
    /\ call.university = NJIT_NAME
    /\ call.column = "Times_Rank"
    /\ Len(times_filtered) = 3
    /\ times_filtered[1].IPEDS_Name = global_selected_uni
    /\ times_filtered[2].IPEDS_Name = NJIT_NAME
    /\ times_filtered[2].Times_Rank = None
    /\ times_filtered[3].IPEDS_Name = NJIT_NAME
    /\ times_filtered[3].Times_Rank = Str(<< "4", "5" >>)
    /\ ret = Returned(NA)

(* a present value is returned as it is *)
C10_WitnessValue ==
    /\ pc = "returned"
    /\ call.fn = "get_metric_value"
    /\ call.university = global_selected_uni
    /\ ret = Returned(Str(<< "4", "5" >>))

-----------------------------------------------------------------------------
(* Properties of the latest period and of the KPI rows (SpecFilter) *)

(* r is the greatest element of years, or None when years is empty *)
IsLatestOf(r, years) ==
    IF years = {} THEN r = None
    ELSE /\ r.kind = "int"
         /\ r.v \in years
         /\ \A y \in years : y <= r.v

(* C11: the latest period is the maximum of the periods that occur in the  *)
(* subset and are allowed, and it is null exactly when there is no such    *)
(* period.                                                                 *)
C11_LatestPeriod ==
    /\ (pc = "returned" /\ call.fn = "latest") =>
          LET both == { times_filtered[i].Year : i \in 1..Len(times_filtered) }
                         \cap selected_years
          IN  /\ IsLatestOf(ret.val.tab, both)
              /\ IsLatestOf(ret.val.overview, both)
              /\ (ret.val.tab = None) <=> (both = {})
    /\ (pc = "returned" /\ call.fn = "latest_in_table") =>
          LET both == { times_df[i].Year : i \in 1..Len(times_df) }
                         \cap selected_years
          IN  /\ IsLatestOf(ret.val.tab, both)
              /\ (ret.val.tab = None) <=> (both = {})

(* a table with both years of which only the earlier one is allowed *)
C11_Witness ==
    /\ pc = "returned"
    /\ call.fn = "latest_in_table"
    /\ selected_years = {2023}
    /\ { times_df[i].Year : i \in 1..Len(times_df) } = {2023, 2024}
    /\ ret.val.tab = Int_(2023)

(* no allowed period occurs: the latest period is null *)
C11_WitnessNull ==
    /\ pc = "returned"
    /\ call.fn = "latest"
    /\ Len(times_df) > 0
    /\ selected_years # {}
    /\ ret.val.tab = None

(* C17: on every filtered view the Overview's latest period and the        *)
(* agency tab's latest period are the same, both null on an empty view.    *)
C17_LatestAgree ==
    (pc = "returned" /\ call.fn = "latest") =>
        /\ ret.val.overview = ret.val.tab
        /\ times_filtered = <<>> => (ret.val.overview = None /\ ret.val.tab = None)

(* a view of the earlier year under a selection of both years *)
C17_Witness ==
    /\ pc = "returned"
    /\ call.fn = "latest"
    /\ selected_years = {2023, 2024}
    /\ Len(times_filtered) > 0
    /\ ret.val.overview = Int_(2023)
    /\ ret.val.tab = Int_(2023)

(* the value an institution shows in the period: that of its first row of  *)
(* the period in the view, "N/A" without such a row or without a value     *)
ShownIn(period, university) ==
    LET at == { i \in 1..Len(times_filtered) :
                   /\ times_filtered[i].IPEDS_Name = university
                   /\ times_filtered[i].Year = period }
        first == CHOOSE i \in at : \A j \in at : i <= j
    IN  IF at = {} THEN NA
        ELSE IF times_filtered[first].Times_Rank.kind = "none" THEN NA
        ELSE times_filtered[first].Times_Rank

(* C18: in a KPI summary the anchor's value and the comparator's value are *)
(* read from rows of one period, the latest period of the two              *)
(* institutions' filtered rows together; an institution without a row in   *)
(* that period shows "N/A", whatever it has in earlier selected periods.   *)
C18_KpiSamePeriod ==
    (pc = "returned" /\ call.fn = "kpi") =>
        LET periods == { times_filtered[i].Year : i \in 1..Len(times_filtered) }
        IN  /\ IsLatestOf(ret.val.year, periods)
            /\ IF periods = {}
               THEN ret.val.njit_val = NA /\ ret.val.other_val = NA
               ELSE /\ ret.val.njit_val = ShownIn(ret.val.year.v, NJIT_NAME)
                    /\ ret.val.other_val =
                          ShownIn(ret.val.year.v, global_selected_uni)

(* the anchor has a value in 2023 only, the comparator has a row in 2024 *)
C18_Witness ==
    /\ pc = "returned"
    /\ call.fn = "kpi"
    /\ call.form = "overview"
    /\ ret.val.year = Int_(2024)
    /\ ret.val.njit_val = NA
    /\ ret.val.other_val = Str(<< "4", "5" >>)
    /\ \E i \in 1..Len(times_filtered) :
          /\ times_filtered[i].IPEDS_Name = NJIT_NAME
          /\ times_filtered[i].Year = 2023
          /\ times_filtered[i].Times_Rank = Str(<< "4", "5" >>)
    /\ \A i \in 1..Len(times_filtered) :
          times_filtered[i].IPEDS_Name = NJIT_NAME => times_filtered[i].Year = 2023

-----------------------------------------------------------------------------
(* Order of the rank triple (SpecRankDf) *)

(* C19: every row retained by build_rank_range_df has low <= mid <= high,  *)
(* so the error-bar lengths high - mid and mid - low are not negative,     *)
(* for every rank that parses, "600-501" included.                         *)
C19_TripleOrdered ==
    (RankDfBuilt /\ ret.exc = "") =>
        \A k \in 1..Len(ret.val) :
            /\ ret.val[k].low.v <= ret.val[k].mid.v
            /\ ret.val[k].mid.v <= ret.val[k].high.v
            /\ ret.val[k].high.v - ret.val[k].mid.v >= 0
            /\ ret.val[k].mid.v - ret.val[k].low.v >= 0

(* what holds of the retained rows: mid lies between the two numbers in    *)
(* the order they were written, low being the first and high the second    *)
C19_MidBetweenAsWritten ==
    (RankDfBuilt /\ ret.exc = "") =>
        \A k \in 1..Len(ret.val) :
            LET r == ret.val[k]
            IN  \/ r.low.v <= r.mid.v /\ r.mid.v <= r.high.v
                \/ r.high.v <= r.mid.v /\ r.mid.v < r.low.v

(* "600-501" is retained with low 600, high 501, mid 550 *)
C19_Reversed ==
    /\ RankDfBuilt
    /\ ret.exc = ""
    /\ \E k \in 1..Len(ret.val) :
          /\ ret.val[k].metric = Str(<< "6", "0", "0", "-", "5", "0", "1" >>)
          /\ ret.val[k].low = Int_(600)
          /\ ret.val[k].high = Int_(501)
          /\ ret.val[k].mid = Int_(550)
          /\ ret.val[k].high.v - ret.val[k].mid.v = -49

-----------------------------------------------------------------------------
(* Properties of the memoized helpers (SpecMemo) *)

(* C14: memoization is transparent: in any sequence of calls each of the   *)
(* two memoized helpers returns what its body computes on the arguments of *)
(* that call, also when the table argument differs from the table of an    *)
(* earlier call.                                                           *)
C14_MemoTransparent ==
    /\ (pc = "returned" /\ call.fn = "get_common_universities") =>
          ret.val = get_common_universities(call.times_df, call.qs_df,
                                            call.usn_df, call.washington_df)
    /\ (pc = "returned" /\ call.fn = "get_filtered_combined_df") =>
          ret.val = get_filtered_combined_df(call._combined_df,
                                             call.common_universities,
                                             call.nj_filter)

(* what holds: get_common_universities, whose four tables are all hashed,  *)
(* is transparent                                                          *)
C14_CommonTransparent ==
    (pc = "returned" /\ call.fn = "get_common_universities") =>
        ret.val = get_common_universities(call.times_df, call.qs_df,
                                          call.usn_df, call.washington_df)

(* what holds: get_filtered_combined_df returns what its body computed on  *)
(* the table of the FIRST call made with this common set and this filter   *)
C14_FilteredKeyedWithoutTable ==
    (pc = "returned" /\ call.fn = "get_filtered_combined_df") =>
        /\ key_filtered(call._combined_df, call.common_universities,
                        call.nj_filter) \in DOMAIN memo.filtered
        /\ ret.val = memo.filtered[<< call.common_universities,
                                      call.nj_filter >>]
        /\ \E first \in MemoFrames :
              ret.val = get_filtered_combined_df(first,
                           call.common_universities, call.nj_filter)

(* a stale result: the table of this call has Rutgers outside New Jersey,  *)
(* yet the "Yes" result still holds the Rutgers row of an earlier table    *)
C14_Stale ==
    /\ pc = "returned"
    /\ call.fn = "get_filtered_combined_df"
    /\ call.nj_filter = "Yes"
    /\ call._combined_df =
          << FlagRow(0, NJIT_NAME, "Yes"), FlagRow(1, "Rutgers", "No") >>
    /\ ret.val = << FlagRow(0, NJIT_NAME, "Yes"), FlagRow(1, "Rutgers", "Yes") >>

-----------------------------------------------------------------------------
(* Properties of the session (Spec) *)

(* the four source tables as the last run left them *)
SourceOf(a) ==
    CASE a = "TIMES" -> times_df
      [] a = "QS" -> qs_df
      [] a = "USN" -> usn_df
      [] a = "Washington" -> washington_df

(* the combined table: the rows of the four sources, one after the other *)
Combined == times_df \o qs_df \o usn_df \o washington_df

(* the positions of the combined table the regional filter is to keep *)
RegionPositions ==
    { i \in 1..Len(Combined) :
         /\ Combined[i].IPEDS_Name \in common_universities
         /\ \/ nj_filter = "All"
            \/ nj_filter = "Yes" /\ Combined[i].New_Jersey_University = "Yes"
            \/ nj_filter = "No" /\ Combined[i].New_Jersey_University = "No" }

(* C12: get_filtered_combined_df returns the records of the combined table *)
(* whose identifier is in the common set, under Yes only those flagged     *)
(* "Yes", under No only those flagged "No", under All with no regional     *)
(* restriction; a record with an unknown or missing flag is excluded under *)
(* both Yes and No.                                                        *)
C12_RegionalFilter ==
    LET out == run.out.combined_common_df
    IN  /\ Len(out) = Cardinality(RegionPositions)
        /\ \A k \in 1..Len(out) :
              /\ out[k].idx + 1 \in RegionPositions
              /\ k > 1 => out[k - 1].idx < out[k].idx
              /\ LET src == Combined[out[k].idx + 1]
                 IN  /\ out[k].IPEDS_Name = src.IPEDS_Name
                     /\ out[k].Year = src.Year
                     /\ out[k].New_Jersey_University = src.New_Jersey_University
        /\ nj_filter # "All" =>
              \A k \in 1..Len(out) :
                  out[k].New_Jersey_University \in {"Yes", "No"}

(* under No a common institution without a flag is left out while one      *)
(* flagged "No" is kept                                                    *)
C12_Witness ==
    /\ nj_filter = "No"
    /\ \E i \in 1..Len(Combined) :
          /\ Combined[i].IPEDS_Name \in common_universities
          /\ Combined[i].New_Jersey_University = Missing
    /\ \E k \in 1..Len(run.out.combined_common_df) :
          run.out.combined_common_df[k].New_Jersey_University = "No"
    /\ \A k \in 1..Len(run.out.combined_common_df) :
          run.out.combined_common_df[k].New_Jersey_University # Missing

(* C13: after the load no interaction (years, regional filter, comparator, *)
(* tab override, section) changes the four source tables or the common     *)
(* set.                                                                    *)
C13_SourcesReadOnly ==
    [][ /\ times_df' = times_df
        /\ qs_df' = qs_df
        /\ usn_df' = usn_df
        /\ washington_df' = washington_df
        /\ common_universities' = common_universities ]_vars

(* every kind of interaction has happened, the tabs and a chart were       *)
(* rendered from a source that still has rows outside the views            *)
C13_Witness ==
    /\ run.exc = ""
    /\ selected_years = {2024}
    /\ nj_filter = "Yes"
    /\ tab_selected_uni["TIMES"] = "MIT"
    /\ section = "Teaching"
    /\ Len(run.out.chart) > 0
    /\ Len(times_filtered) < Len(times_df)
    /\ Len(run.out.times_ranks) > 0
    /\ times_df = normalize(memo.load[<< >>]["TIMES"])

(* the rows of source a for the selected years and the pair {anchor, u} *)
RowsFor(a, u) ==
    LET df == SourceOf(a)
        Wanted(r) == r.Year \in selected_years /\ r.IPEDS_Name \in {NJIT_NAME, u}
    IN  SelectSeq(df, Wanted)

(* the comparator the tab of agency a is to use in the given widget state *)
EffectiveUni(selected, a, global) ==
    IF selected[a] = GlobalOption THEN global ELSE selected[a]

(* what the Overview shows: its views, latest years, KPIs and rank charts *)
OverviewShown ==
    << run.out.views, run.out.latest_years, run.out.kpi_data,
       run.out.times_ranks, run.out.qs_ranks >>

(* C15: the tab of an agency uses the global comparator while its selector *)
(* stands at its default and otherwise the institution chosen from that    *)
(* agency's extras; choosing an override in one tab changes only that      *)
(* tab's view, latest year and KPIs: the Overview and the other three tabs *)
(* stay as they were, on the global comparator.                            *)
C15_TabOverrideLocal ==
    [][ /\ run'.exc = "" =>
              \A a \in Agencies :
                  /\ run'.out.tabs[a].final_uni =
                        EffectiveUni(tab_selected_uni', a, global_selected_uni')
                  /\ tab_selected_uni'[a] \in
                        {GlobalOption} \cup set(run'.out.extras_shown[a])
        /\ \A a \in Agencies :
              ( /\ tab_selected_uni'[a] # tab_selected_uni[a]
                /\ run.exc = "" /\ run'.exc = "" ) =>
                  /\ OverviewShown' = OverviewShown
                  /\ global_selected_uni' = global_selected_uni
                  /\ \A b \in Agencies \ {a} :
                        /\ run'.out.tabs[b] = run.out.tabs[b]
                        /\ tab_selected_uni'[b] = GlobalOption =>
                              run'.out.tabs[b].final_uni = global_selected_uni'
        /\ \A a \in Agencies :
              run'.out.kpi_data[a].other_val =
                  kpi_value(run'.out.views[a], run'.out.latest_years[a],
                            global_selected_uni', RankCol[a]).val ]_vars

(* MIT is chosen in the TIMES tab only: its view holds the MIT row, the    *)
(* Overview and the QS tab still compare with the global comparator        *)
C15_Witness ==
    /\ run.exc = ""
    /\ tab_selected_uni["TIMES"] = "MIT"
    /\ \A b \in Agencies \ {"TIMES"} : tab_selected_uni[b] = GlobalOption
    /\ global_selected_uni = "Rutgers"
    /\ run.out.tabs["TIMES"].final_uni = "MIT"
    /\ \E i \in 1..Len(run.out.tabs["TIMES"].view) :
          run.out.tabs["TIMES"].view[i].IPEDS_Name = "MIT"
    /\ run.out.tabs["TIMES"].other_val = R45
    /\ run.out.tabs["QS"].final_uni = "Rutgers"
    /\ run.out.tabs["QS"].other_val = R45
    /\ \A i \in 1..Len(run.out.views["TIMES"]) :
          run.out.views["TIMES"][i].IPEDS_Name # "MIT"

(* a source has no row for the selection *)
NothingSelected(a) == RowsFor(a, global_selected_uni) = << >>

(* C16: an empty selection is not an error: when no year is selected or no *)
(* row of a source matches the years and the pair, the source's view is    *)
(* empty, its latest year is null, every KPI of the anchor and of the      *)
(* comparator is "N/A", and no step of the run raises.                     *)
C16_EmptyNotAnError ==
    \A a \in Agencies :
        NothingSelected(a) =>
            /\ run.out.views[a] = << >>
            /\ run.out.latest_years[a] = None
            /\ run.out.kpi_data[a].njit_val = NA
            /\ run.out.kpi_data[a].other_val = NA
            /\ run.exc = ""
            /\ tab_selected_uni[a] = GlobalOption =>
                  /\ run.out.tabs[a].view = << >>
                  /\ run.out.tabs[a].latest = None
                  /\ run.out.tabs[a].njit_val = NA
                  /\ run.out.tabs[a].other_val = NA

(* what holds: the view is empty, the latest year null and the Overview's  *)
(* KPIs "N/A"; the run then raises in the Overview exactly when the TIMES  *)
(* or the QS view has no row with a rank, and the tabs are not reached     *)
C16_EmptyShownThenRaise ==
    /\ \A a \in Agencies :
          NothingSelected(a) =>
              /\ run.out.views[a] = << >>
              /\ run.out.latest_years[a] = None
              /\ run.out.kpi_data[a].njit_val = NA
              /\ run.out.kpi_data[a].other_val = NA
    /\ (NothingSelected("TIMES") \/ NothingSelected("QS")) =>
          /\ run.exc = "ValueError"
          /\ run.out.tabs = << >>
    /\ run.exc \in {"", "ValueError"}

(* no year is selected: the Overview raises at its first rank chart *)
C16_Raises ==
    /\ selected_years = {}
    /\ \A a \in Agencies : run.out.views[a] = << >> /\ run.out.latest_years[a] = None
    /\ run.exc = "ValueError"
    /\ run.at = "TIMES Rank"
    /\ run.out.tabs = << >>

(* the anchor's rows of the selected years are all in the view of a *)
AnchorKept(view, a) ==
    \A i \in 1..Len(SourceOf(a)) :
        ( /\ SourceOf(a)[i].IPEDS_Name = NJIT_NAME
          /\ SourceOf(a)[i].Year \in selected_years ) =>
            \E k \in 1..Len(view) : view[k] = SourceOf(a)[i]

(* C20: the regional filter restricts only the candidates of the global    *)
(* comparator: with the years and the comparator unchanged, the four       *)
(* views, their latest years and the four extras lists are the same under  *)
(* All, Yes and No, and the filter never removes a row of the anchor from  *)
(* a view.                                                                 *)
C20_RegionOnlyCandidates ==
    [][ /\ ( /\ nj_filter' # nj_filter
             /\ selected_years' = selected_years
             /\ global_selected_uni' = global_selected_uni ) =>
                /\ run'.out.views = run.out.views
                /\ run'.out.latest_years = run.out.latest_years
                /\ extra_unis' = extra_unis
                /\ run'.out.extras_shown = run.out.extras_shown
        /\ \A a \in Agencies : AnchorKept(run.out.views[a], a)'
        /\ set(run'.out.options) \subseteq
              { Combined'[i].IPEDS_Name : i \in 1..Len(Combined') } ]_vars

(* under Yes, with Rutgers still the comparator, the TIMES view keeps the  *)
(* row of the anchor that the sheet flags "No"                             *)
C20_Witness ==
    /\ nj_filter = "Yes"
    /\ global_selected_uni = "Rutgers"
    /\ Len(run.out.options) > 0
    /\ \E k \in 1..Len(run.out.views["TIMES"]) :
          /\ run.out.views["TIMES"][k].IPEDS_Name = NJIT_NAME
          /\ run.out.views["TIMES"][k].New_Jersey_University = "No"
    /\ \A k \in 1..Len(run.out.combined_common_df) :
          run.out.combined_common_df[k].New_Jersey_University = "Yes"

=============================================================================
